---- MODULE Spec2Model ----
(***************************************************************************)
(* Conversion-metric reconciliation of the Facebook ads scripts.           *)
(*                                                                         *)
(*   Policy A  get_correct_conversion_count  facebook_api_to_json/main.py  *)
(*   Policy B  process_custom_conversions_from_actions                     *)
(*                                                     src/streamlit_app.py*)
(*                                                                         *)
(* A JSON value stored under an attribution-window key ('1d_click',        *)
(* '28d_click') is one of                                                  *)
(*     [k |-> "missing"]            the key is not in the dict             *)
(*     [k |-> "num", t |-> n]       a finite decimal, n tenths: "2.5" = 25 *)
(*     [k |-> "bad"]                a string float() rejects (ValueError)  *)
(*     [k |-> "null"]               JSON null, None (TypeError)            *)
(* Policy A's rows carry the first three kinds, Policy B's argument all    *)
(* four.                                                                   *)
(* Decimal strings are finite: "inf" and "1e999", which float() accepts    *)
(* and int() then rejects with OverflowError, are outside the inputs.      *)
(*                                                                         *)
(* A Python result is [kind |-> "int", v |-> n], None or a raised          *)
(* exception [kind |-> "raise", exc |-> name].                             *)
(***************************************************************************)
EXTENDS Integers, Sequences, FiniteSets, TLC

VARIABLES
    insight_data,    \* Policy A: the row handed to get_correct_conversion_count
    pcA,             \* Policy A: "call" before the call, "done" after it
    resultA,         \* Policy A: what the call returned
    actions_data,    \* Policy B: the argument of process_custom_conversions_from_actions
    pcB,             \* Policy B: "call" before the call, "done" after it
    resultB,         \* Policy B: what the call returned, or the exception it raised
    insights_data,   \* process_insights_data: the rows it was given
    processed_data,  \* process_insights_data: the rows appended so far
    pcP,             \* process_insights_data: "loop" inside the for loop, "done" returned
    current_date,    \* fetch_offsite_conversions (main.py): the day of the while loop
    all_data,        \* fetch_offsite_conversions (main.py): the rows kept so far
    all_ad_ids,      \* fetch_offsite_conversions (main.py): the ad ids of the rows kept
    pcM,             \* fetch_offsite_conversions (main.py): "loop", "returned" or "raised"
    excM,            \* fetch_offsite_conversions (main.py): the exception it re-raised
    fn,              \* windowed run: the function called, FacebookAPI's
                     \*   fetch_offsite_conversions or fb_fetcher's fetch_insights
    start_dt,        \* windowed run: first day of the range (a day number)
    end_dt,          \* windowed run: the day the range ends before
    increment_days,  \* windowed run: days per window (step_days of fetch_insights)
    current,         \* windowed run: `current` of the date range iterator
    windows,         \* windowed run: the time_range of every get_insights call so far
    responses,       \* windowed run: what the row source answered to each call
    all_rows,        \* windowed run: all_data / all_rows, the rows gathered so far
    error_log,       \* windowed run: the period starts logged by logger.error
    pcW,             \* windowed run: "start", "loop", "returned" or "raised"
    excW,            \* windowed run: the exception that left the function
    performance_data,  \* display_performance_metrics: the stored per-day rows
    has_actions_col,   \* display_performance_metrics: is there an 'actions' column
    date_range,        \* display_performance_metrics: what st.date_input returned
    ad_metrics,        \* display_performance_metrics: the per-ad sums
    pcR,               \* display_performance_metrics: "start", "warned", "rolled_up",
                       \*   "failed" or "rates_failed"
    excR,              \* display_performance_metrics: the exception its handler caught
    db_schema,       \* database: which method created the tables last
    db_ads,          \* database: the committed rows of table ads
    db_perf,         \* database: the committed rows of table performance_metrics
    txn_ads,         \* loader: table ads as the open connection sees it
    txn_perf,        \* loader: table performance_metrics as the open connection sees it
    loader_call,     \* loader: the method called last
    loader_pc,       \* loader: "idle", or the loop the call is in, "ads" or "metrics"
    loader_rows,     \* loader: rows the call has taken from its arguments so far
    lad_ads,         \* loader: the ads load_ads_data has been given in this call
    lad_perf,        \* loader: the metrics load_ads_data has been given in this call
    lad_dropped,     \* loader: how many rows the DROPs of this load_ads_data removed
    excL,            \* loader: the exception that ended the last call
    arg_start_date,  \* repeated runs: start_date as passed, a day or not given
    arg_end_date,    \* repeated runs: end_date as passed, a day or not given
    arg_days_back,   \* repeated runs: days_back as passed
    arg_increment,   \* repeated runs: increment_days as passed
    last_run_file,   \* repeated runs: what data/state/last_run.json holds
    first_last_run,  \* repeated runs: what it held before the first run
    today,           \* repeated runs: the day datetime.now() falls on
    failing_days,    \* repeated runs: the window starts the row source fails for
    output_file,     \* repeated runs: the rows in the JSON file written last
    runs,            \* repeated runs: day, dates and outcome of each run so far
    client_method,   \* client: the decorated method that is called
    api_failures,    \* client: how many calls of the API fail before one succeeds
    api_error,       \* client: the exception a failing API call raises
    attempts,        \* client: calls of the API made so far
    sleeps,          \* client: time.sleep calls made so far
    pcC,             \* client: "call", "returned" or "raised"
    outcomeC,        \* client: what the method returned, or the exception it raised
    etl_module,      \* run_etl: the package whose main_etl is run
    failing_stages,  \* run_etl: the stages of this run that raise
    pixel_id,        \* run_etl: what get_pixel_id_from_account returns
    ad_insights,     \* run_etl: per ad of the account, what get_insights yields
    etl_pc,          \* run_etl: the stage it is at, or "returned"
    ad_index,        \* extract_ads_async: position of the loop over basic_ads
    status_info,     \* extract_ads_async: its status_info
    ads_data,        \* extract_ads_async: ads_data, one ad per insight row kept
    warnings,        \* run_etl: the stages that logged a warning
    loaded,          \* run_etl: the records handed to the loader and stored
    status           \* run_etl: its status dictionary

varsA == <<insight_data, pcA, resultA>>
varsB == <<actions_data, pcB, resultB>>
varsP == <<insights_data, processed_data, pcP>>
\* the state of the operations other than the two policies
varsM == <<current_date, all_data, all_ad_ids, pcM, excM>>
varsW == <<fn, start_dt, end_dt, increment_days, current, windows, responses,
           all_rows, error_log, pcW, excW>>
varsR == <<performance_data, has_actions_col, date_range, ad_metrics, pcR, excR>>
varsL == <<db_schema, db_ads, db_perf, txn_ads, txn_perf, loader_call, loader_pc,
           loader_rows, lad_ads, lad_perf, lad_dropped, excL>>
varsT == <<arg_start_date, arg_end_date, arg_days_back, arg_increment, last_run_file,
           first_last_run, today, failing_days, output_file, runs>>
varsC == <<client_method, api_failures, api_error, attempts, sleeps, pcC, outcomeC>>
varsE == <<etl_module, failing_stages, pixel_id, ad_insights, etl_pc, ad_index,
           status_info, ads_data, warnings, loaded, status>>
varsOther == <<varsP, varsM, varsW, varsR, varsL, varsT, varsC, varsE>>
vars == <<varsA, varsB, varsOther>>

\* process_insights_data is not running
IdleP ==
    /\ insights_data = <<>>
    /\ processed_data = <<>>
    /\ pcP = "idle"

\* fetch_offsite_conversions of main.py is not running
IdleM ==
    /\ current_date = 0
    /\ all_data = <<>>
    /\ all_ad_ids = {}
    /\ pcM = "idle"
    /\ excM = "-"

\* no windowed run is going on
IdleW ==
    /\ fn = "-"
    /\ start_dt = 0
    /\ end_dt = 0
    /\ increment_days = 1
    /\ current = 0
    /\ windows = <<>>
    /\ responses = <<>>
    /\ all_rows = <<>>
    /\ error_log = <<>>
    /\ pcW = "idle"
    /\ excW = "-"

\* no dashboard roll-up is going on
IdleR ==
    /\ performance_data = <<>>
    /\ has_actions_col = FALSE
    /\ date_range = <<>>
    /\ ad_metrics = {}
    /\ pcR = "idle"
    /\ excR = "-"

\* the loader has not been constructed
IdleL ==
    /\ db_schema = "-"
    /\ db_ads = {}
    /\ db_perf = {}
    /\ txn_ads = {}
    /\ txn_perf = {}
    /\ loader_call = "-"
    /\ loader_pc = "-"
    /\ loader_rows = 0
    /\ lad_ads = {}
    /\ lad_perf = {}
    /\ lad_dropped = 0
    /\ excL = "-"

\* no repeated run is going on
IdleT ==
    /\ arg_start_date = [given |-> FALSE, day |-> 0]
    /\ arg_end_date = [given |-> FALSE, day |-> 0]
    /\ arg_days_back = 0
    /\ arg_increment = 1
    /\ last_run_file = [kind |-> "absent", day |-> 0]
    /\ first_last_run = [kind |-> "absent", day |-> 0]
    /\ today = 0
    /\ failing_days = {}
    /\ output_file = <<>>
    /\ runs = <<>>

\* no client method is called
IdleC ==
    /\ client_method = "-"
    /\ api_failures = 0
    /\ api_error = [exception |-> "-", code |-> "-", code_is_text |-> FALSE]
    /\ attempts = 0
    /\ sleeps = 0
    /\ pcC = "idle"
    /\ outcomeC = "-"

\* run_etl is not running
IdleE ==
    /\ etl_module = "-"
    /\ failing_stages = {}
    /\ pixel_id = "-"
    /\ ad_insights = <<>>
    /\ etl_pc = "idle"
    /\ ad_index = 0
    /\ status_info = [status |-> "-", total_ads |-> 0, processed_ads |-> 0,
                      errors |-> <<>>]
    /\ ads_data = <<>>
    /\ warnings = {}
    /\ loaded = <<>>
    /\ status = [status |-> "-", message |-> "-"]

\* nothing but the policies is running
IdleOther == IdleP /\ IdleM /\ IdleW /\ IdleR /\ IdleL /\ IdleT /\ IdleC /\ IdleE

\* For each operation, the state of all the others and their being at rest
varsExceptP == <<varsA, varsB, varsM, varsW, varsR, varsL, varsT, varsC, varsE>>
IdleExceptP == IdleM /\ IdleW /\ IdleR /\ IdleL /\ IdleT /\ IdleC /\ IdleE
varsExceptM == <<varsA, varsB, varsP, varsW, varsR, varsL, varsT, varsC, varsE>>
IdleExceptM == IdleP /\ IdleW /\ IdleR /\ IdleL /\ IdleT /\ IdleC /\ IdleE
varsExceptW == <<varsA, varsB, varsP, varsM, varsR, varsL, varsT, varsC, varsE>>
IdleExceptW == IdleP /\ IdleM /\ IdleR /\ IdleL /\ IdleT /\ IdleC /\ IdleE
varsExceptR == <<varsA, varsB, varsP, varsM, varsW, varsL, varsT, varsC, varsE>>
IdleExceptR == IdleP /\ IdleM /\ IdleW /\ IdleL /\ IdleT /\ IdleC /\ IdleE
varsExceptL == <<varsA, varsB, varsP, varsM, varsW, varsR, varsT, varsC, varsE>>
IdleExceptL == IdleP /\ IdleM /\ IdleW /\ IdleR /\ IdleT /\ IdleC /\ IdleE
varsExceptT == <<varsA, varsB, varsP, varsM, varsW, varsR, varsL, varsC, varsE>>
IdleExceptT == IdleP /\ IdleM /\ IdleW /\ IdleR /\ IdleL /\ IdleC /\ IdleE
varsExceptC == <<varsA, varsB, varsP, varsM, varsW, varsR, varsL, varsT, varsE>>
IdleExceptC == IdleP /\ IdleM /\ IdleW /\ IdleR /\ IdleL /\ IdleT /\ IdleE
varsExceptE == <<varsA, varsB, varsP, varsM, varsW, varsR, varsL, varsT, varsC>>
IdleExceptE == IdleP /\ IdleM /\ IdleW /\ IdleR /\ IdleL /\ IdleT /\ IdleC

----------------------------------------------------------------------------
(* Bounds of the model *)

\* longest actions / action_values list of a row
MaxLen == 2

----------------------------------------------------------------------------
(* Python values *)

None == [kind |-> "None"]
PyInt(n) == [kind |-> "int", v |-> n]
Raise(e) == [kind |-> "raise", exc |-> e]
Unset == [kind |-> "unset"]

Missing == [k |-> "missing"]
Num(t) == [k |-> "num", t |-> t]
Bad == [k |-> "bad"]
Null == [k |-> "null"]

CUSTOM == "offsite_conversion.fb_pixel_custom"
PURCHASE == "purchase"

Abs(n) == IF n < 0 THEN -n ELSE n

\* int(float(x)) of a value given in tenths: float() parses the decimal, int()
\* truncates toward zero; a non-numeric string raises ValueError, None TypeError.
IntOfFloat(x) ==
    CASE x.k = "num" -> PyInt(IF x.t >= 0 THEN x.t \div 10 ELSE -((-x.t) \div 10))
      [] x.k = "bad" -> Raise("ValueError")
      [] x.k = "null" -> Raise("TypeError")

\* dict.get(key, 0): the stored value, or the integer 0 when the key is missing
GetOrZero(x) == IF x.k = "missing" THEN Num(0) ELSE x

----------------------------------------------------------------------------
(* Policy A: get_correct_conversion_count *)

\* Mutant of scan_1d_click: the first matching entry wins (a `break` after the
\* assignment) instead of the last.
RECURSIVE scan_1d_click_first(_, _, _)
scan_1d_click_first(entries, i, cur) ==
    IF i > Len(entries) THEN cur
    ELSE LET action == entries[i]
             conv == IntOfFloat(GetOrZero(action.d1_click))
         IN  IF action.action_type = CUSTOM
             THEN IF conv.kind = "raise"
                  THEN scan_1d_click_first(entries, i + 1, cur)
                  ELSE conv
             ELSE scan_1d_click_first(entries, i + 1, cur)

\* Mutant of scan_1d_click: a value that fails to parse is replaced by the
\* default 0 instead of being passed over.
RECURSIVE scan_1d_click_zero(_, _, _)
scan_1d_click_zero(entries, i, cur) ==
    IF i > Len(entries) THEN cur
    ELSE LET action == entries[i]
             conv == IntOfFloat(GetOrZero(action.d1_click))
         IN  IF action.action_type = CUSTOM
             THEN IF conv.kind = "raise"
                  THEN scan_1d_click_zero(entries, i + 1, PyInt(0))
                  ELSE scan_1d_click_zero(entries, i + 1, conv)
             ELSE scan_1d_click_zero(entries, i + 1, cur)

\* Mutant of scan_1d_click: an entry without a '1d_click' key is passed over
\* instead of being read as 0.
RECURSIVE scan_1d_click_skip_missing(_, _, _)
scan_1d_click_skip_missing(entries, i, cur) ==
    IF i > Len(entries) THEN cur
    ELSE LET action == entries[i]
             conv == IntOfFloat(GetOrZero(action.d1_click))
         IN  IF action.action_type = CUSTOM
             THEN IF conv.kind = "raise" \/ action.d1_click = Missing
                  THEN scan_1d_click_skip_missing(entries, i + 1, cur)
                  ELSE scan_1d_click_skip_missing(entries, i + 1, conv)
             ELSE scan_1d_click_skip_missing(entries, i + 1, cur)

\* One pass of a `for action in actions` loop from position i on, cur being the
\* candidate so far: an entry of the custom-conversion type assigns
\* int(float(action.get('1d_click', 0))) to the candidate; when the conversion
\* raises ValueError or TypeError the entry is passed over (continue).
RECURSIVE scan_1d_click(_, _, _)
scan_1d_click(entries, i, cur) ==
    IF i > Len(entries) THEN cur
    ELSE LET action == entries[i]
             conv == IntOfFloat(GetOrZero(action.d1_click))
         IN  IF action.action_type = CUSTOM
             THEN IF conv.kind = "raise"
                  THEN scan_1d_click(entries, i + 1, cur)
                  ELSE scan_1d_click(entries, i + 1, conv)
             ELSE scan_1d_click(entries, i + 1, cur)

\* Mutant of last_custom_1d_click: the candidate starts at 0 instead of None.
last_custom_1d_click_from_zero(entries) == scan_1d_click(entries, 1, PyInt(0))

\* The candidate a list leaves behind: None until an entry assigns it.
last_custom_1d_click(entries) == scan_1d_click(entries, 1, None)

\* Mutant of ratio_is_35: the abs() is forgotten, larger / smaller - 35 < 1.
ratio_is_35_no_abs(smaller, larger) ==
    IF smaller > 0 THEN larger - 35 * smaller < smaller
    ELSE larger - 35 * smaller > smaller

\* Mutant of ratio_is_35: the bound is inclusive, abs(...) <= 1.
ratio_is_35_inclusive(smaller, larger) ==
    Abs(larger - 35 * smaller) <= Abs(smaller)

\* abs(larger / smaller - 35) < 1 for smaller # 0, in integer arithmetic:
\* |larger/smaller - 35| < 1  <=>  |larger - 35 * smaller| < |smaller|
\* (exact for the float division while the operands stay below 2^47).
ratio_is_35(smaller, larger) == Abs(larger - 35 * smaller) < Abs(smaller)

Min(a, b) == IF a <= b THEN a ELSE b
Max(a, b) == IF a >= b THEN a ELSE b

\* Mutant of reconcile_candidates: the larger candidate is returned.
reconcile_candidates_larger(conversion_count, conversion_value) ==
    IF conversion_count = None \/ conversion_value = None THEN None
    ELSE IF conversion_count.v = 0 /\ conversion_value.v = 0 THEN PyInt(0)
    ELSE IF conversion_count.v = 0 \/ conversion_value.v = 0 THEN None
    ELSE LET smaller == Min(conversion_count.v, conversion_value.v)
             larger == Max(conversion_count.v, conversion_value.v)
         IN  IF ratio_is_35(smaller, larger) THEN PyInt(larger) ELSE None

\* Mutant of reconcile_candidates: the both-zero test is left out.
reconcile_candidates_no_both_zero(conversion_count, conversion_value) ==
    IF conversion_count = None \/ conversion_value = None THEN None
    ELSE IF conversion_count.v = 0 \/ conversion_value.v = 0 THEN None
    ELSE LET smaller == Min(conversion_count.v, conversion_value.v)
             larger == Max(conversion_count.v, conversion_value.v)
         IN  IF ratio_is_35(smaller, larger) THEN PyInt(smaller) ELSE None

\* Mutant of reconcile_candidates: the one-zero test is left out, so a zero
\* smaller candidate reaches the division.
reconcile_candidates_no_one_zero(conversion_count, conversion_value) ==
    IF conversion_count = None \/ conversion_value = None THEN None
    ELSE IF conversion_count.v = 0 /\ conversion_value.v = 0 THEN PyInt(0)
    ELSE LET smaller == Min(conversion_count.v, conversion_value.v)
             larger == Max(conversion_count.v, conversion_value.v)
         IN  IF smaller = 0 THEN Raise("ZeroDivisionError")
             ELSE IF ratio_is_35(smaller, larger) THEN PyInt(smaller) ELSE None

\* The verdict on the two candidates.
reconcile_candidates(conversion_count, conversion_value) ==
    IF conversion_count = None \/ conversion_value = None THEN None
    ELSE IF conversion_count.v = 0 /\ conversion_value.v = 0 THEN PyInt(0)
    ELSE IF conversion_count.v = 0 \/ conversion_value.v = 0 THEN None
    ELSE LET smaller == Min(conversion_count.v, conversion_value.v)
             larger == Max(conversion_count.v, conversion_value.v)
         IN  IF ratio_is_35(smaller, larger) THEN PyInt(smaller) ELSE None

\* A list-valued key of a row: absent, or present with its items.
AbsentKey == [has |-> FALSE, items |-> <<>>]
PyList(s) == [has |-> TRUE, items |-> s]

\* insight_data.get('actions', []): an absent key reads as the empty list
ListOrEmpty(l) == IF l.has THEN l.items ELSE <<>>

get_correct_conversion_count(row) ==
    reconcile_candidates(last_custom_1d_click(ListOrEmpty(row.actions)),
                         last_custom_1d_click(ListOrEmpty(row.action_values)))

----------------------------------------------------------------------------
(* Inputs of Policy A *)

\* '1d_click' as the feed can carry it, in tenths: "-2", "0", "2", "68.9"
\* (int: 68, 34 times 2), "70", "72.5" (int: 72, 36 times 2)
Clicks1d == {Missing, Bad, Num(-20), Num(0), Num(20), Num(689), Num(700), Num(725)}

EntriesA == [action_type : {CUSTOM}, d1_click : Clicks1d]
            \cup [action_type : {PURCHASE}, d1_click : {Bad, Num(700)}]

SeqsUpTo(S, n) == UNION {[1..m -> S] : m \in 0..n}

ListsA == {PyList(s) : s \in SeqsUpTo(EntriesA, MaxLen)} \cup {AbsentKey}

RowsA == [actions : ListsA, action_values : ListsA]

InitA ==
    /\ insight_data \in RowsA
    /\ pcA = "call"
    /\ resultA = Unset
    /\ actions_data = Unset
    /\ pcB = "idle"
    /\ resultB = Unset
    /\ IdleOther

\* correct_count = get_correct_conversion_count(insight_data)
Reconcile ==
    /\ pcA = "call"
    /\ resultA' = get_correct_conversion_count(insight_data)
    /\ pcA' = "done"
    /\ UNCHANGED <<insight_data, varsB, varsOther>>

NextA == Reconcile

SpecA == InitA /\ [][NextA]_vars

----------------------------------------------------------------------------
(* Policy B: process_custom_conversions_from_actions *)

\* The `for idx, action in enumerate(actions_data)` loop from position i on,
\* highest being highest_28d_click so far.  An element that is no dict, has
\* another action_type or lacks '28d_click' is passed over; otherwise
\* int(float(action['28d_click'])) is taken outside any try block, so a
\* conversion that raises leaves the function with that exception.
RECURSIVE scan_28d_click(_, _, _)
scan_28d_click(actions, i, highest) ==
    IF i > Len(actions) THEN PyInt(highest)
    ELSE LET action == actions[i]
             value == IntOfFloat(action.d28_click)
         IN  IF action.py_type # "dict"
             THEN scan_28d_click(actions, i + 1, highest)
             ELSE IF action.action_type # CUSTOM
             THEN scan_28d_click(actions, i + 1, highest)
             ELSE IF action.d28_click.k = "missing"
             THEN scan_28d_click(actions, i + 1, highest)
             ELSE IF value.kind = "raise" THEN value
             ELSE IF value.v > highest
             THEN scan_28d_click(actions, i + 1, value.v)
             ELSE scan_28d_click(actions, i + 1, highest)

\* Mutant of process_custom_conversions_from_actions: the running maximum
\* starts below every value (float('-inf')) instead of at 0.
process_custom_conversions_no_floor(data) ==
    IF ~data.has THEN PyInt(0)
    ELSE scan_28d_click(data.items, 1, -1000)

\* `if not isinstance(actions_data, list): return 0`, then the scan from 0
process_custom_conversions_from_actions(data) ==
    IF ~data.has THEN PyInt(0)
    ELSE scan_28d_click(data.items, 1, 0)

----------------------------------------------------------------------------
(* Inputs of Policy B *)

\* '28d_click' as the feed can carry it, in tenths
Clicks28d == {Missing, Bad, Null, Num(-30), Num(0), Num(25), Num(50), Num(70)}

\* a list element that is not a dict (a string, a number)
NotADict == [py_type |-> "str", action_type |-> "", d28_click |-> Missing]

EntriesB == [py_type : {"dict"}, action_type : {CUSTOM}, d28_click : Clicks28d]
            \cup [py_type : {"dict"}, action_type : {PURCHASE}, d28_click : {Bad, Num(70)}]
            \cup {NotADict}

\* the parsed 'actions' cell: a list, or something that is no list (a dict)
InputsB == {PyList(s) : s \in SeqsUpTo(EntriesB, MaxLen)} \cup {AbsentKey}

InitB ==
    /\ actions_data \in InputsB
    /\ pcB = "call"
    /\ resultB = Unset
    /\ insight_data = [actions |-> AbsentKey, action_values |-> AbsentKey]
    /\ pcA = "idle"
    /\ resultA = Unset
    /\ IdleOther

\* filtered_data['parsed_actions'].apply(process_custom_conversions_from_actions)
ProcessB ==
    /\ pcB = "call"
    /\ resultB' = process_custom_conversions_from_actions(actions_data)
    /\ pcB' = "done"
    /\ UNCHANGED <<actions_data, varsA, varsOther>>

NextB == ProcessB

SpecB == InitB /\ [][NextB]_vars

----------------------------------------------------------------------------
(* Both policies side by side: a row goes to one or to the other *)

InitAB ==
    /\ \/ /\ insight_data \in RowsA
          /\ pcA = "call"
          /\ resultA = Unset
          /\ actions_data = Unset
          /\ pcB = "idle"
          /\ resultB = Unset
       \/ /\ actions_data \in InputsB
          /\ pcB = "call"
          /\ resultB = Unset
          /\ insight_data = [actions |-> AbsentKey, action_values |-> AbsentKey]
          /\ pcA = "idle"
          /\ resultA = Unset
    /\ IdleOther

NextAB == Reconcile \/ ProcessB

SpecAB == InitAB /\ [][NextAB]_vars

----------------------------------------------------------------------------
(* process_insights_data: Policy A applied to a list of rows *)

\* neither policy is running
IdlePolicies ==
    /\ insight_data = [actions |-> AbsentKey, action_values |-> AbsentKey]
    /\ pcA = "idle"
    /\ resultA = Unset
    /\ actions_data = Unset
    /\ pcB = "idle"
    /\ resultB = Unset

\* str(correct_count): the decimal string of an int, in tenths
StrOfInt(n) == Num(10 * n)

\* [{'action_type': 'offsite_conversion.fb_pixel_custom', '1d_click': str(n)}]
filtered_items(correct_count) ==
    <<[action_type |-> CUSTOM, d1_click |-> StrOfInt(correct_count.v)]>>

\* Mutant of process_insight: a row without a count gets a count of 0.
process_insight_default_zero(row) ==
    LET correct_count == get_correct_conversion_count(row)
    IN  IF correct_count # None
        THEN [row EXCEPT !.actions = PyList(filtered_items(correct_count)),
                         !.action_values = AbsentKey]
        ELSE [row EXCEPT !.actions = PyList(filtered_items(PyInt(0))),
                         !.action_values = AbsentKey]

\* The body of the loop on one row: with a count, actions becomes the single
\* filtered item and action_values is popped; without, both are popped.
process_insight(row) ==
    LET correct_count == get_correct_conversion_count(row)
    IN  IF correct_count # None
        THEN [row EXCEPT !.actions = PyList(filtered_items(correct_count)),
                         !.action_values = AbsentKey]
        ELSE [row EXCEPT !.actions = AbsentKey, !.action_values = AbsentKey]

\* the lists a fetched row carries under 'actions' / 'action_values'
ListsP == {AbsentKey, PyList(<<>>),
           PyList(<<[action_type |-> CUSTOM, d1_click |-> Num(700)]>>),
           PyList(<<[action_type |-> CUSTOM, d1_click |-> Num(20)]>>),
           PyList(<<[action_type |-> CUSTOM, d1_click |-> Num(0)]>>),
           PyList(<<[action_type |-> PURCHASE, d1_click |-> Num(700)]>>)}

AdIds == {"ad1", "ad2"}

RowsP == [ad_id : AdIds, actions : ListsP, action_values : ListsP]

\* longest list of rows handed to process_insights_data
MaxRows == 2

InitP ==
    /\ insights_data \in SeqsUpTo(RowsP, MaxRows)
    /\ processed_data = <<>>
    /\ pcP = "loop"
    /\ IdlePolicies
    /\ IdleExceptP

\* one turn of `for insight_data in insights_data`, ending in
\* processed_data.append(insight_data)
ProcessInsight ==
    /\ pcP = "loop"
    /\ Len(processed_data) < Len(insights_data)
    /\ processed_data' =
          Append(processed_data, process_insight(insights_data[Len(processed_data) + 1]))
    /\ UNCHANGED <<insights_data, pcP, varsExceptP>>

\* return processed_data
ReturnProcessed ==
    /\ pcP = "loop"
    /\ Len(processed_data) = Len(insights_data)
    /\ pcP' = "done"
    /\ UNCHANGED <<insights_data, processed_data, varsExceptP>>

NextP == ProcessInsight \/ ReturnProcessed

SpecP == InitP /\ [][NextP]_vars

----------------------------------------------------------------------------
(* fetch_offsite_conversions of facebook_api_to_json/main.py: the day-by-day  *)
(* run that applies Policy A                                                 *)

\* days between start_date and end_date; the script has timedelta(days=30)
RunDays == 2

\* the 'ad_id' of a row the API sent without that key
NoAdId == "<no ad_id>"

ListsM == {AbsentKey,
           PyList(<<[action_type |-> CUSTOM, d1_click |-> Num(700)]>>),
           PyList(<<[action_type |-> CUSTOM, d1_click |-> Num(20)]>>),
           PyList(<<[action_type |-> CUSTOM, d1_click |-> Num(0)]>>)}

\* insight.export_all_data() of one fetched insight
RowsM == [ad_id : AdIds \cup {NoAdId}, actions : ListsM, action_values : ListsM]

\* list(insights) of one day
InsightsLists == SeqsUpTo(RowsM, MaxRows)

\* The `for insight in insights_list` loop of one day from position i on:
\* kept is processed_data, ids is all_ad_ids.  A row with a count is rewritten
\* and appended, then all_ad_ids.add(insight_data['ad_id']) raises KeyError
\* when the row has no ad_id; a row without a count is left out.
RECURSIVE process_day(_, _, _, _, _)
process_day(insights_list, i, day, kept, ids) ==
    IF i > Len(insights_list) THEN [exc |-> "-", rows |-> kept, ids |-> ids]
    ELSE LET insight == insights_list[i]
             correct_count == get_correct_conversion_count(insight)
             row == [ad_id |-> insight.ad_id,
                     date_start |-> day,
                     date_stop |-> day + 1,
                     actions |-> PyList(filtered_items(correct_count)),
                     action_values |-> AbsentKey]
         IN  IF correct_count = None
             THEN process_day(insights_list, i + 1, day, kept, ids)
             ELSE IF insight.ad_id = NoAdId
             THEN [exc |-> "KeyError", rows |-> Append(kept, row), ids |-> ids]
             ELSE process_day(insights_list, i + 1, day, Append(kept, row),
                              ids \cup {insight.ad_id})

InitM ==
    /\ current_date = 0
    /\ all_data = <<>>
    /\ all_ad_ids = {}
    /\ pcM = "loop"
    /\ excM = "-"
    /\ IdlePolicies
    /\ IdleExceptM

\* One turn of `while current_date < end_date` in which get_insights answers:
\* the day's rows are processed and all_data extended, unless a row raises,
\* which the outer `except Exception` logs and re-raises.
FetchDay ==
    /\ pcM = "loop"
    /\ current_date < RunDays
    /\ \E insights_list \in InsightsLists :
          LET day == process_day(insights_list, 1, current_date, <<>>, all_ad_ids)
          IN  IF day.exc = "-"
              THEN /\ all_data' = all_data \o day.rows
                   /\ all_ad_ids' = day.ids
                   /\ current_date' = current_date + 1
                   /\ UNCHANGED <<pcM, excM>>
              ELSE /\ pcM' = "raised"
                   /\ excM' = day.exc
                   /\ all_ad_ids' = day.ids
                   /\ UNCHANGED <<current_date, all_data>>
    /\ UNCHANGED <<varsExceptM>>

\* One turn in which ad_account.get_insights (or the paging inside
\* list(insights)) raises: no try encloses it but the outer one, which logs
\* and re-raises.
FetchDayFails ==
    /\ pcM = "loop"
    /\ current_date < RunDays
    /\ pcM' = "raised"
    /\ excM' = "FacebookRequestError"
    /\ UNCHANGED <<current_date, all_data, all_ad_ids, varsExceptM>>

\* the loop is over: the data is saved, the creatives fetched, and
\* `return all_data, creatives`
ReturnRun ==
    /\ pcM = "loop"
    /\ current_date >= RunDays
    /\ pcM' = "returned"
    /\ UNCHANGED <<current_date, all_data, all_ad_ids, excM, varsExceptM>>

NextM == FetchDay \/ FetchDayFails \/ ReturnRun

SpecM == InitM /\ [][NextM]_vars

----------------------------------------------------------------------------
(* The windowed runs: FacebookAPI.fetch_offsite_conversions                  *)
(* (facebook_api_to_json/src/facebook_api.py) over date_range_iterator, and  *)
(* fetch_insights (src/fb_fetcher.py) over _date_range_iterator.  Dates are  *)
(* day numbers; timedelta(days=n) adds n.                                    *)

\* the last day number of the model's calendar
MaxDate == 3

\* most rows one get_insights call returns
MaxWindowRows == 2

FB_API == "FacebookAPI.fetch_offsite_conversions"
FETCH_INSIGHTS == "fetch_insights"

\* increment_days / step_days as a caller can pass them
Steps == {-1, 0, 1, 2}

\* Mutant of period_end_of: the window is not cut at end_date.
period_end_unclamped(cur, end, step) == cur + step

\* period_end = min(current + timedelta(days=increment_days), end_date)
period_end_of(cur, end, step) == Min(cur + step, end)

\* What is raised before the loop: fetch_insights raises ValueError when
\* start_dt >= end_dt; FacebookAPI.fetch_offsite_conversions checks nothing.
range_error(f, start, end) ==
    IF f = FETCH_INSIGHTS /\ start >= end THEN "ValueError" ELSE "-"

\* Mutant of catches_fetch_error: no try around get_insights in either run.
catches_fetch_error_never(f) == FALSE

\* Is get_insights inside a try whose handler logs and continues?  In
\* FacebookAPI.fetch_offsite_conversions it is; in fetch_insights it is not.
catches_fetch_error(f) == f = FB_API

\* Mutant of log_fetch_error: the handler continues without logging.
log_fetch_error_silent(log, period_start) == log

\* logger.error(f"Error fetching data for period {format_date(period_start)}...")
log_fetch_error(log, period_start) == Append(log, period_start)

\* a get_insights call raised
FetchFailed == [ok |-> FALSE, rows |-> <<>>]

\* what the row source can answer for the window [since, until): an error,
\* or rows of that window
WindowResponses(since, until) ==
    {FetchFailed} \cup
    {[ok |-> TRUE, rows |-> r] :
        r \in SeqsUpTo([ad_id : AdIds, date_start : {since}, date_stop : {until}],
                       MaxWindowRows)}

InitW ==
    /\ fn \in {FB_API, FETCH_INSIGHTS}
    /\ start_dt \in 0..MaxDate
    /\ end_dt \in 0..MaxDate
    /\ increment_days \in Steps
    /\ current = 0
    /\ windows = <<>>
    /\ responses = <<>>
    /\ all_rows = <<>>
    /\ error_log = <<>>
    /\ pcW = "start"
    /\ excW = "-"
    /\ IdlePolicies
    /\ IdleExceptW

\* The call up to the loop: the dates are at hand, fetch_insights checks
\* their order, and the iterator starts at start_date.
BeginRun ==
    /\ pcW = "start"
    /\ IF range_error(fn, start_dt, end_dt) # "-"
       THEN /\ pcW' = "raised"
            /\ excW' = range_error(fn, start_dt, end_dt)
            /\ UNCHANGED current
       ELSE /\ pcW' = "loop"
            /\ current' = start_dt
            /\ UNCHANGED excW
    /\ UNCHANGED <<fn, start_dt, end_dt, increment_days, windows, responses,
                   all_rows, error_log, varsExceptW>>

\* One turn of the for loop: the iterator yields (current, period_end), the
\* window is fetched, and its rows extend the list; a failed fetch is logged
\* and passed over where a try encloses it, and leaves the function where
\* none does.  The iterator resumes with current = period_end.  A step below
\* one never reaches end_date: the model stops following it after MaxDate
\* calls.
FetchWindow ==
    /\ pcW = "loop"
    /\ current < end_dt
    /\ Len(windows) < MaxDate
    /\ LET period_end == period_end_of(current, end_dt, increment_days)
       IN  \E response \in WindowResponses(current, period_end) :
              /\ windows' = Append(windows, <<current, period_end>>)
              /\ responses' = Append(responses, response)
              /\ IF response.ok
                 THEN /\ all_rows' = all_rows \o response.rows
                      /\ current' = period_end
                      /\ UNCHANGED <<error_log, pcW, excW>>
                 ELSE IF catches_fetch_error(fn)
                 THEN /\ error_log' = log_fetch_error(error_log, current)
                      /\ current' = period_end
                      /\ UNCHANGED <<all_rows, pcW, excW>>
                 ELSE /\ pcW' = "raised"
                      /\ excW' = "FacebookRequestError"
                      /\ UNCHANGED <<all_rows, error_log, current>>
    /\ UNCHANGED <<fn, start_dt, end_dt, increment_days, varsExceptW>>

\* the iterator is exhausted: the rows are saved and returned
ReturnWindows ==
    /\ pcW = "loop"
    /\ current >= end_dt
    /\ pcW' = "returned"
    /\ UNCHANGED <<fn, start_dt, end_dt, increment_days, current, windows, responses,
                   all_rows, error_log, excW, varsExceptW>>

NextW == BeginRun \/ FetchWindow \/ ReturnWindows

SpecW == InitW /\ [][NextW]_vars

----------------------------------------------------------------------------
(* display_performance_metrics (src/streamlit_app.py): the date filter, the  *)
(* per-row custom count and the sums by ad.  Dates are day numbers, spend is *)
(* in cents.                                                                 *)

\* the last day number a stored row can carry
MaxDay == 2

\* most rows of the stored series
MaxSeries == 2

\* The 'actions' cell as stored: a JSON text that decodes (to a list, or to
\* something else), a text that does not decode, or None.
JsonCell(v) == [kind |-> "json", value |-> v]
UndecodableCell == [kind |-> "undecodable", value |-> AbsentKey]
NoneCell == [kind |-> "none", value |-> AbsentKey]

\* safe_json_loads: None and undecodable text give the default [], anything
\* else what the text decodes to
safe_json_loads(cell) ==
    IF cell.kind = "json" THEN cell.value ELSE PyList(<<>>)

\* a custom entry whose '28d_click' is c
Custom28d(c) == [py_type |-> "dict", action_type |-> CUSTOM, d28_click |-> c]

CellsR ==
    { JsonCell(PyList(<<Custom28d(Num(20))>>)),
      JsonCell(PyList(<<Custom28d(Bad)>>)),
      JsonCell(AbsentKey),
      UndecodableCell,
      NoneCell }

\* impressions, clicks and spend as they come together in a row
MetricsR ==
    { [impressions |-> 100, clicks |-> 10, spend |-> 500],
      [impressions |-> 200, clicks |-> 20, spend |-> 700],
      [impressions |-> 300, clicks |-> 0, spend |-> 100],
      [impressions |-> 0, clicks |-> 0, spend |-> 0] }

RowsR ==
    { [ad_id |-> a, date |-> d, impressions |-> m.impressions, clicks |-> m.clicks,
       spend |-> m.spend, actions |-> c] :
        a \in AdIds, d \in 0..MaxDay, m \in MetricsR, c \in CellsR }

\* st.date_input gives two dates once both are picked, one before that
DateRanges ==
    {<<d>> : d \in 0..MaxDay} \cup
    {<<d, e>> : d \in 0..MaxDay, e \in 0..MaxDay}

\* mask = (date >= start_date) & (date <= end_date); with fewer than two
\* dates picked nothing is filtered
in_date_range(range, date) ==
    Len(range) = 2 => (date >= range[1] /\ date <= range[2])

RECURSIVE SumSeq(_)
SumSeq(q) == IF q = <<>> THEN 0 ELSE Head(q) + SumSeq(Tail(q))

\* .apply(process_custom_conversions_from_actions) from row i on: the first
\* call that raises ends the apply with its exception
RECURSIVE apply_custom_count(_, _, _)
apply_custom_count(rows, i, col) ==
    IF i > Len(rows) THEN [exc |-> "-", col |-> col]
    ELSE LET r == process_custom_conversions_from_actions(safe_json_loads(rows[i].actions))
         IN  IF r.kind = "raise" THEN [exc |-> r.exc, col |-> <<>>]
             ELSE apply_custom_count(rows, i + 1, Append(col, r.v))

\* groupby('ad_id').agg(sum): one record per ad_id that occurs
groupby_sum(rows, counts, with_count) ==
    { LET Of(f(_)) == SumSeq([i \in 1..Len(rows) |->
                               IF rows[i].ad_id = a THEN f(i) ELSE 0])
          Impressions(i) == rows[i].impressions
          Clicks(i) == rows[i].clicks
          Spend(i) == rows[i].spend
          Count(i) == counts[i]
      IN  [ad_id |-> a,
           impressions |-> Of(Impressions),
           clicks |-> Of(Clicks),
           spend |-> Of(Spend),
           custom_conv_count |-> IF with_count THEN PyInt(Of(Count)) ELSE None]
      : a \in {rows[i].ad_id : i \in 1..Len(rows)} }

\* A rate as a column of the per-ad table holds it: pd.NA, a float rounded to
\* two decimals (kept in hundredths), or a float that was not rounded (kept as
\* the quotient n / d it approximates).
NA == [kind |-> "NA"]
Rounded(h) == [kind |-> "float", hundredths |-> h]
Unrounded(n, d) == [kind |-> "unrounded", n |-> n, d |-> d]

\* n / d to the nearest whole number, ties to the even one (d > 0, n >= 0)
RoundDiv(n, d) ==
    LET q == n \div d
        r == n % d
    IN  IF 2 * r < d THEN q
        ELSE IF 2 * r > d THEN q + 1
        ELSE IF q % 2 = 0 THEN q ELSE q + 1

\* One cell of (numerator / denominator.replace(0, pd.NA) * scale).round(2),
\* n being numerator * scale in hundredths.  has_zero: some denominator of
\* the column is 0, so that replace() turned the column into objects; the
\* quotient by pd.NA is pd.NA, and round() leaves an object column as it is
\* (where it does not raise, see RollUp).
rate_cell(n, d, has_zero) ==
    IF d = 0 THEN NA
    ELSE IF has_zero THEN Unrounded(n, d)
    ELSE Rounded(RoundDiv(n, d))

\* ctr = clicks / impressions * 100, cpc = spend / clicks,
\* cpm = spend / impressions * 1000, each column as a whole
with_rates(sums) ==
    LET zero_impressions == \E m \in sums : m.impressions = 0
        zero_clicks == \E m \in sums : m.clicks = 0
    IN  { [ad_id |-> m.ad_id,
           impressions |-> m.impressions,
           clicks |-> m.clicks,
           spend |-> m.spend,
           custom_conv_count |-> m.custom_conv_count,
           ctr |-> rate_cell(m.clicks * 10000, m.impressions, zero_impressions),
           cpc |-> rate_cell(m.spend, m.clicks, zero_clicks),
           cpm |-> rate_cell(m.spend * 1000, m.impressions, zero_impressions)]
          : m \in sums }

InitR ==
    /\ performance_data \in SeqsUpTo(RowsR, MaxSeries)
    /\ has_actions_col \in BOOLEAN
    /\ date_range \in DateRanges
    /\ ad_metrics = {}
    /\ pcR = "start"
    /\ excR = "-"
    /\ IdlePolicies
    /\ IdleExceptR

\* From the first checks to the sums by ad and their rates.  No row at all,
\* or none in range: a warning and no table.  An exception anywhere is caught
\* by the handler that encloses the whole body, which reports it; no table
\* then either.  Where a denominator is 0 the rate column holds objects, and
\* what round() does with such a column depends on the pandas release: it
\* returns the column as it is, or it raises TypeError.
RollUp ==
    /\ pcR = "start"
    /\ LET InRange(row) == in_date_range(date_range, row.date)
           filtered_data == SelectSeq(performance_data, InRange)
           applied == IF has_actions_col
                      THEN apply_custom_count(filtered_data, 1, <<>>)
                      ELSE [exc |-> "-", col |-> [i \in 1..Len(filtered_data) |-> 0]]
       IN  IF filtered_data = <<>>
           THEN /\ pcR' = "warned"
                /\ UNCHANGED <<ad_metrics, excR>>
           ELSE IF applied.exc # "-"
           THEN /\ pcR' = "failed"
                /\ excR' = applied.exc
                /\ UNCHANGED ad_metrics
           ELSE LET sums == groupby_sum(filtered_data, applied.col, has_actions_col)
                    has_zero == \E m \in sums : m.impressions = 0 \/ m.clicks = 0
                IN  \/ /\ pcR' = "rolled_up"
                       /\ ad_metrics' = with_rates(sums)
                       /\ UNCHANGED excR
                    \/ /\ has_zero
                       /\ pcR' = "rates_failed"
                       /\ excR' = "TypeError"
                       /\ UNCHANGED ad_metrics
    /\ UNCHANGED <<performance_data, has_actions_col, date_range,
                   varsExceptR>>

NextR == RollUp

SpecR == InitR /\ [][NextR]_vars

----------------------------------------------------------------------------
(* FacebookAdsLoader (facebook_api_to_json/src/etl/loaders.py): the tables   *)
(* ads and performance_metrics of the SQLite file.  Every method opens a     *)
(* connection, executes its INSERT OR REPLACE statements row by row and      *)
(* commits at the end; an exception on the way leaves the `with` block,      *)
(* which rolls the statements of the call back.                              *)

\* most rows one call takes from its arguments
MaxBatch == 2

\* the days the rows handed to the loader are dated
LoaderDays == {0, 1}

\* A metrics row as handed to the loader: 'timestamp' / 'date_start' is day;
\* numeric says whether int(metric.get('impressions', 0)) succeeds.
MetricsInputs ==
    { [ad_id |-> a, day |-> d, numeric |-> m.numeric, impressions |-> m.impressions,
       clicks |-> m.clicks, spend |-> m.spend] :
        a \in AdIds, d \in LoaderDays,
        m \in { [numeric |-> TRUE, impressions |-> 0, clicks |-> 0, spend |-> 0],
                [numeric |-> TRUE, impressions |-> 100, clicks |-> 10, spend |-> 500],
                [numeric |-> FALSE, impressions |-> 0, clicks |-> 0, spend |-> 0] } }

\* an ad as handed to the loader
AdsInputs == [id : AdIds, name : {"name1", "name2"}]

\* ctr = (clicks / impressions * 100) if impressions > 0 else 0, and so on;
\* the quotients in hundredths, as in the dashboard's table
derived_rates(impressions, clicks, spend) ==
    [ctr |-> IF impressions > 0 THEN Unrounded(clicks * 10000, impressions) ELSE Rounded(0),
     cpc |-> IF clicks > 0 THEN Unrounded(spend, clicks) ELSE Rounded(0),
     cpm |-> IF impressions > 0 THEN Unrounded(spend * 1000, impressions) ELSE Rounded(0)]

\* the row load_performance_metrics inserts for a metric
stored_by_load_performance_metrics(metric) ==
    LET rates == derived_rates(metric.impressions, metric.clicks, metric.spend)
    IN  [ad_id |-> metric.ad_id, timestamp |-> metric.day,
         impressions |-> metric.impressions, clicks |-> metric.clicks,
         spend |-> metric.spend,
         ctr |-> rates.ctr, cpc |-> rates.cpc, cpm |-> rates.cpm]

\* the row load_ads_data inserts for a metric: the rates are those the metric
\* carries, float(metric.get('ctr', 0)); the rows here carry none
stored_by_load_ads_data(metric) ==
    [ad_id |-> metric.ad_id, timestamp |-> metric.day,
     impressions |-> metric.impressions, clicks |-> metric.clicks,
     spend |-> metric.spend,
     ctr |-> Rounded(0), cpc |-> Rounded(0), cpm |-> Rounded(0)]

\* INSERT OR REPLACE under PRIMARY KEY (ad_id, timestamp)
replace_into_performance_metrics(table, row) ==
    {r \in table : ~(r.ad_id = row.ad_id /\ r.timestamp = row.timestamp)} \cup {row}

\* INSERT OR REPLACE under id TEXT PRIMARY KEY
replace_into_ads(table, row) ==
    {r \in table : r.id # row.id} \cup {row}

\* Mutant of drop_and_create: CREATE TABLE IF NOT EXISTS without the DROP.
create_if_not_exists(table) == table

\* _create_tables: DROP TABLE IF EXISTS, then CREATE TABLE: the table is empty
drop_and_create(table) == {}

\* __init__ has run _init_db on a new file
InitL ==
    /\ db_schema = "_init_db"
    /\ db_ads = {}
    /\ db_perf = {}
    /\ txn_ads = {}
    /\ txn_perf = {}
    /\ loader_call = "-"
    /\ loader_pc = "idle"
    /\ loader_rows = 0
    /\ lad_ads = {}
    /\ lad_perf = {}
    /\ lad_dropped = 0
    /\ excL = "-"
    /\ IdlePolicies
    /\ IdleExceptL

\* load_ads or load_performance_metrics is called: a connection is opened
CallLoad ==
    /\ loader_pc = "idle"
    /\ \E method \in {"load_ads", "load_performance_metrics"} :
          /\ loader_call' = method
          /\ loader_pc' = IF method = "load_ads" THEN "ads" ELSE "metrics"
    /\ txn_ads' = db_ads
    /\ txn_perf' = db_perf
    /\ loader_rows' = 0
    /\ lad_ads' = {}
    /\ lad_perf' = {}
    /\ lad_dropped' = 0
    /\ excL' = "-"
    /\ UNCHANGED <<db_schema, db_ads, db_perf, varsExceptL>>

\* load_ads_data is called: _create_tables drops and recreates the tables and
\* commits, then a second connection is opened for the rows
CallLoadAdsData ==
    /\ loader_pc = "idle"
    /\ loader_call' = "load_ads_data"
    /\ loader_pc' = "ads"
    /\ db_schema' = "_create_tables"
    /\ db_ads' = drop_and_create(db_ads)
    /\ db_perf' = drop_and_create(db_perf)
    /\ txn_ads' = drop_and_create(db_ads)
    /\ txn_perf' = drop_and_create(db_perf)
    /\ loader_rows' = 0
    /\ lad_ads' = {}
    /\ lad_perf' = {}
    /\ lad_dropped' = Cardinality(db_ads) + Cardinality(db_perf)
    /\ excL' = "-"
    /\ UNCHANGED varsExceptL

\* the call ends with exception e: the connection rolls back
Abort(e) ==
    /\ excL' = e
    /\ loader_pc' = "idle"
    /\ txn_ads' = db_ads
    /\ txn_perf' = db_perf
    /\ UNCHANGED <<db_schema, db_ads, db_perf>>

\* One turn of `for ad in ...`.  load_ads names the 27 columns of the ads
\* table of _init_db; on the 10-column table of _create_tables its INSERT
\* fails.
InsertAd ==
    /\ loader_pc = "ads"
    /\ loader_rows < MaxBatch
    /\ loader_rows' = loader_rows + 1
    /\ \E ad \in AdsInputs :
          /\ lad_ads' = IF loader_call = "load_ads_data" THEN lad_ads \cup {ad} ELSE lad_ads
          /\ IF loader_call = "load_ads" /\ db_schema = "_create_tables"
             THEN Abort("OperationalError")
             ELSE /\ txn_ads' = replace_into_ads(txn_ads, ad)
                  /\ UNCHANGED <<db_schema, db_ads, db_perf, txn_perf, loader_pc, excL>>
    /\ UNCHANGED <<loader_call, lad_perf, lad_dropped, varsExceptL>>

\* One turn of `for metric in ...`, in load_ads_data after the loop over the
\* ads.  The conversions to int and float come first and raise ValueError on
\* text that is no number; load_performance_metrics names columns (actions,
\* conversion_values, ...) that the table of _create_tables lacks.
InsertMetric ==
    /\ loader_pc \in {"ads", "metrics"}
    /\ loader_call \in {"load_performance_metrics", "load_ads_data"}
    /\ loader_rows < MaxBatch
    /\ loader_rows' = loader_rows + 1
    /\ \E metric \in MetricsInputs :
          /\ lad_perf' = IF loader_call = "load_ads_data"
                         THEN lad_perf \cup {metric} ELSE lad_perf
          /\ IF ~metric.numeric
             THEN Abort("ValueError")
             ELSE IF loader_call = "load_performance_metrics" /\ db_schema = "_create_tables"
             THEN Abort("OperationalError")
             ELSE /\ txn_perf' = replace_into_performance_metrics(txn_perf,
                        IF loader_call = "load_ads_data"
                        THEN stored_by_load_ads_data(metric)
                        ELSE stored_by_load_performance_metrics(metric))
                  /\ loader_pc' = "metrics"
                  /\ UNCHANGED <<db_schema, db_ads, db_perf, txn_ads, excL>>
    /\ UNCHANGED <<loader_call, lad_ads, lad_dropped, varsExceptL>>

\* the loops are over: conn.commit()
CommitLoad ==
    /\ loader_pc \in {"ads", "metrics"}
    /\ db_ads' = txn_ads
    /\ db_perf' = txn_perf
    /\ loader_pc' = "idle"
    /\ UNCHANGED <<db_schema, txn_ads, txn_perf, loader_call, loader_rows,
                   lad_ads, lad_perf, lad_dropped, excL, varsExceptL>>

NextL == CallLoad \/ CallLoadAdsData \/ InsertAd \/ InsertMetric \/ CommitLoad

SpecL == InitL /\ [][NextL]_vars

----------------------------------------------------------------------------
(* FacebookAPI.fetch_offsite_conversions called again and again with the    *)
(* same arguments: get_date_range (date_utils.py) turns the arguments, the  *)
(* checkpoint file and the clock into the two dates, and the run fetches    *)
(* the windows between them from a row source that answers a window the     *)
(* same way every time.                                                     *)

\* number of runs followed
MaxRuns == 2

\* the last day the clock reaches
MaxToday == 3

\* a date argument: a 'YYYY-MM-DD' text, or None
GivenDay(d) == [given |-> TRUE, day |-> d]
NotGiven == [given |-> FALSE, day |-> 0]

\* data/state/last_run.json as get_last_successful_run finds it: no file (or
\* one it cannot read: None either way), a date, or a text that is no date
NoLastRun == [kind |-> "absent", day |-> 0]
LastRun(d) == [kind |-> "date", day |-> d]
MalformedLastRun == [kind |-> "malformed", day |-> 0]

\* Mutant of get_date_range: the checkpoint is not consulted.
get_date_range_without_checkpoint(start_date, end_date, days_back, last_run, now) ==
    LET end == IF end_date.given THEN end_date.day ELSE now
    IN  [exc |-> "-", end |-> end,
         start |-> IF start_date.given THEN start_date.day ELSE end - days_back]

\* get_date_range: end is end_date or today's midnight; start is start_date,
\* or else the day after the checkpoint, or else end - days_back.  The
\* checkpoint is read only when start_date is not given, and strptime raises
\* ValueError on a checkpoint that is no date.
get_date_range(start_date, end_date, days_back, last_run, now) ==
    LET end == IF end_date.given THEN end_date.day ELSE now
    IN  IF start_date.given
        THEN [exc |-> "-", start |-> start_date.day, end |-> end]
        ELSE IF last_run.kind = "malformed"
        THEN [exc |-> "ValueError", start |-> 0, end |-> 0]
        ELSE IF last_run.kind = "date"
        THEN [exc |-> "-", start |-> last_run.day + 1, end |-> end]
        ELSE [exc |-> "-", start |-> end - days_back, end |-> end]

\* the rows of the windows from cur on, a failing window giving none
RECURSIVE fetch_periods(_, _, _, _)
fetch_periods(cur, end, step, failing) ==
    IF cur >= end THEN <<>>
    ELSE LET period_end == period_end_of(cur, end, step)
         IN  (IF cur \in failing THEN <<>>
              ELSE <<[ad_id |-> "ad1", date_start |-> cur, date_stop |-> period_end]>>)
             \o fetch_periods(period_end, end, step, failing)

\* Mutant of last_run_after: the run records its end date as the checkpoint.
last_run_stored(last_run, end) == LastRun(end)

\* The checkpoint file after a run: FacebookAPI.fetch_offsite_conversions
\* writes the output file and nothing else; store_last_successful_run is not
\* called.
last_run_after(last_run, end) == last_run

InitT ==
    /\ arg_start_date \in {NotGiven} \cup {GivenDay(d) : d \in 0..2}
    /\ arg_end_date \in {NotGiven} \cup {GivenDay(d) : d \in 1..2}
    /\ arg_days_back \in {1, 2}
    /\ arg_increment \in {1, 2}
    /\ last_run_file \in {NoLastRun, MalformedLastRun} \cup {LastRun(d) : d \in 0..1}
    /\ first_last_run = last_run_file
    /\ today \in 2..MaxToday
    /\ failing_days \in SUBSET (0..2)
    /\ output_file = <<>>
    /\ runs = <<>>
    /\ IdlePolicies
    /\ IdleExceptT

\* One call of FacebookAPI.fetch_offsite_conversions(start_date, end_date,
\* days_back, increment_days, output_file), from get_date_range to the return
Invoke ==
    /\ Len(runs) < MaxRuns
    /\ LET range == get_date_range(arg_start_date, arg_end_date, arg_days_back,
                                   last_run_file, today)
           data == fetch_periods(range.start, range.end, arg_increment, failing_days)
       IN  IF range.exc # "-"
           THEN /\ runs' = Append(runs, [today |-> today, exc |-> range.exc,
                                         start |-> 0, end |-> 0, data |-> <<>>])
                /\ UNCHANGED <<output_file, last_run_file>>
           ELSE /\ runs' = Append(runs, [today |-> today, exc |-> "-",
                                         start |-> range.start, end |-> range.end,
                                         data |-> data])
                /\ output_file' = data
                /\ last_run_file' = last_run_after(last_run_file, range.end)
    /\ UNCHANGED <<arg_start_date, arg_end_date, arg_days_back, arg_increment,
                   first_last_run, today, failing_days, varsExceptT>>

\* a day goes by between two runs
MidnightPasses ==
    /\ today < MaxToday
    /\ runs # <<>>
    /\ today' = today + 1
    /\ UNCHANGED <<arg_start_date, arg_end_date, arg_days_back, arg_increment,
                   last_run_file, first_last_run, failing_days, output_file, runs,
                   varsExceptT>>

NextT == Invoke \/ MidnightPasses

SpecT == InitT /\ [][NextT]_vars

----------------------------------------------------------------------------
(* FacebookAdsClient (src/fb_client.py): the methods under @retry_on_failure *)

\* max_tries of the backoff decorator
MaxTries == 5

ClientMethods == {"get_campaigns", "get_ad_creatives", "get_ads_with_creatives"}

\* What a failing API call raises.  For a FacebookRequestError, code is
\* e.api_error_code(): a rate-limit code (17), an authentication code (190)
\* or another one (1), as an int or as a text.
ApiErrors ==
    [exception : {"FacebookRequestError"}, code : {"17", "190", "1"},
     code_is_text : BOOLEAN]
    \cup {[exception |-> "RequestException", code |-> "-", code_is_text |-> FALSE]}

\* handle_facebook_error: error_code is looked up in lists of texts; a
\* rate-limit code sleeps and returns, every other one, and every code that
\* is no text, raises FacebookAPIError
handle_facebook_error(e) ==
    IF e.code_is_text /\ e.code = "17"
    THEN [exc |-> "-", sleeps |-> 1]
    ELSE [exc |-> "FacebookAPIError", sleeps |-> 0]

\* The body of a method on a failing API call: get_campaigns has no try;
\* get_ad_creatives and get_ads_with_creatives catch FacebookRequestError,
\* call handle_facebook_error and return []; get_ads_with_creatives catches
\* every other Exception too and returns [].
method_on_error(method, e) ==
    IF method = "get_campaigns"
    THEN [exc |-> e.exception, result |-> "-", sleeps |-> 0]
    ELSE IF e.exception = "FacebookRequestError"
    THEN LET h == handle_facebook_error(e)
         IN  IF h.exc # "-" THEN [exc |-> h.exc, result |-> "-", sleeps |-> h.sleeps]
             ELSE [exc |-> "-", result |-> "[]", sleeps |-> h.sleeps]
    ELSE IF method = "get_ads_with_creatives"
    THEN [exc |-> "-", result |-> "[]", sleeps |-> 0]
    ELSE [exc |-> e.exception, result |-> "-", sleeps |-> 0]

\* wrapper(*args): what leaves it when func raised exc: a FacebookRequestError
\* goes through handle_facebook_error and is re-raised unless that raises
\* itself; a RequestException is printed and re-raised; anything else passes
wrapper_on_error(exc, e) ==
    IF exc = "FacebookRequestError"
    THEN LET h == handle_facebook_error(e)
         IN  IF h.exc # "-" THEN [exc |-> h.exc, sleeps |-> h.sleeps]
             ELSE [exc |-> exc, sleeps |-> h.sleeps]
    ELSE [exc |-> exc, sleeps |-> 0]

\* How often wrapper calls func.  backoff.on_exception is applied to
\* retry_on_failure itself, so what it would retry is the call
\* retry_on_failure(func) made when the class is defined; that call only
\* builds wrapper and cannot raise.  wrapper calls func once.
tries_of_wrapper == 1

InitC ==
    /\ client_method \in ClientMethods
    /\ api_failures \in 0..MaxTries
    /\ api_error \in ApiErrors
    /\ attempts = 0
    /\ sleeps = 0
    /\ pcC = "call"
    /\ outcomeC = "-"
    /\ IdlePolicies
    /\ IdleExceptC

\* One call of the API by the method, and what the method and wrapper make
\* of it
Attempt ==
    /\ pcC = "call"
    /\ attempts' = attempts + 1
    /\ IF attempts >= api_failures
       THEN /\ pcC' = "returned"
            /\ outcomeC' = "data"
            /\ UNCHANGED sleeps
       ELSE LET m == method_on_error(client_method, api_error)
                w == wrapper_on_error(m.exc, api_error)
            IN  IF m.exc = "-"
                THEN /\ pcC' = "returned"
                     /\ outcomeC' = m.result
                     /\ sleeps' = sleeps + m.sleeps
                ELSE IF attempts + 1 < tries_of_wrapper
                THEN /\ sleeps' = sleeps + m.sleeps + w.sleeps
                     /\ UNCHANGED <<pcC, outcomeC>>
                ELSE /\ pcC' = "raised"
                     /\ outcomeC' = w.exc
                     /\ sleeps' = sleeps + m.sleeps + w.sleeps
    /\ UNCHANGED <<client_method, api_failures, api_error, varsExceptC>>

NextC == Attempt

SpecC == InitC /\ [][NextC]_vars


----------------------------------------------------------------------------
(* run_etl (main_etl.py of both packages) and extract_ads_async *)

\* how many ads the account has, and how many insight rows one ad yields
MaxAds == 2
MaxInsightRows == 2

EtlModules == {"facebook_api_to_json", "src"}

\* The stages of run_etl that can raise: building the components, the pixel
\* stage, the custom-conversion stage, extract_ads inside extract_ads_async
\* (after its own retries), and transforming and loading the extracted rows.
EtlStages == {"init", "pixel", "conversions", "extract_ads", "load"}

\* What ad.get_insights gives for one ad: it yields `rows` insight rows and
\* then ends, or then raises (with no row yielded, the call itself raised).
AdInsights == [rows : 0..MaxInsightRows, raises : BOOLEAN]

\* n copies of x
Repeat(x, n) == [i \in 1..n |-> x]

InitE ==
    /\ etl_module \in EtlModules
    /\ failing_stages \in SUBSET EtlStages
    /\ pixel_id \in {"None", "pixel"}
    /\ ad_insights \in UNION {[1..n -> AdInsights] : n \in 0..MaxAds}
    /\ etl_pc = "init"
    /\ ad_index = 0
    /\ status_info = [status |-> "-", total_ads |-> 0, processed_ads |-> 0,
                      errors |-> <<>>]
    /\ ads_data = <<>>
    /\ warnings = {}
    /\ loaded = <<>>
    /\ status = [status |-> "success", message |-> ""]
    /\ IdlePolicies
    /\ IdleExceptE

\* run_etl, step 1: the components are built inside the outer try, whose
\* handler sets the status to 'error'
InitializeComponents ==
    /\ etl_pc = "init"
    /\ IF "init" \in failing_stages
       THEN /\ status' = [status |-> "error", message |-> "ETL process failed"]
            /\ etl_pc' = "returned"
       ELSE /\ etl_pc' = "pixel"
            /\ UNCHANGED status
    /\ UNCHANGED <<etl_module, failing_stages, pixel_id, ad_insights, ad_index, status_info,
                   ads_data, warnings, loaded, varsExceptE>>

\* run_etl, step 2: the pixel stage has a try of its own that only warns;
\* get_pixel_id_from_account returns None rather than raise, and without a
\* pixel nothing more is called
PixelStage ==
    /\ etl_pc = "pixel"
    /\ warnings' = IF pixel_id # "None" /\ "pixel" \in failing_stages
                   THEN warnings \cup {"pixel"} ELSE warnings
    /\ etl_pc' = "conversions"
    /\ UNCHANGED <<etl_module, failing_stages, pixel_id, ad_insights, ad_index,
                   status_info, ads_data, loaded, status, varsExceptE>>

\* run_etl, step 3: so has the custom-conversion stage
ConversionStage ==
    /\ etl_pc = "conversions"
    /\ warnings' = IF "conversions" \in failing_stages
                   THEN warnings \cup {"conversions"} ELSE warnings
    /\ etl_pc' = "extract"
    /\ UNCHANGED <<etl_module, failing_stages, pixel_id, ad_insights, ad_index, status_info,
                   ads_data, loaded, status, varsExceptE>>

\* status_info as extract_ads_async has it before extract_ads is called:
\* IN_PROGRESS, with a note in errors when the account has no pixel
status_info_at_start ==
    [status |-> "IN_PROGRESS", total_ads |-> 0, processed_ads |-> 0,
     errors |-> IF pixel_id = "None" THEN <<"No pixel found in account">>
                ELSE <<>>]

\* extract_ads_async up to its loop: when extract_ads raises, the outer
\* handler sets ERROR and returns [], [], status_info; with no ads the
\* function returns at once; otherwise total_ads is the number of ads
BeginExtraction ==
    /\ etl_pc = "extract"
    /\ ads_data' = <<>>
    /\ IF "extract_ads" \in failing_stages
       THEN /\ status_info' =
                   [status_info_at_start EXCEPT
                       !.status = "ERROR",
                       !.errors = Append(@, "Error in extract_ads_async")]
            /\ etl_pc' = "extracted"
            /\ UNCHANGED ad_index
       ELSE IF ad_insights = <<>>
       THEN /\ status_info' = status_info_at_start
            /\ etl_pc' = "extracted"
            /\ UNCHANGED ad_index
       ELSE /\ status_info' =
                   [status_info_at_start EXCEPT !.total_ads = Len(ad_insights)]
            /\ etl_pc' = "insights"
            /\ ad_index' = 1
    /\ UNCHANGED <<etl_module, failing_stages, pixel_id, ad_insights, warnings,
                   loaded, status, varsExceptE>>

\* One turn of `for basic_ad in basic_ads`: every insight row of the ad
\* appends the ad to ads_data (and a metric to performance_data) and adds
\* one to processed_ads; an exception ends the turn with a message in
\* errors, keeping what was added
ExtractInsights ==
    /\ etl_pc = "insights"
    /\ ad_index <= Len(ad_insights)
    /\ LET insights == ad_insights[ad_index]
       IN  /\ ads_data' = ads_data \o Repeat(ad_index, insights.rows)
           /\ status_info' =
                  [status_info EXCEPT
                      !.processed_ads = @ + insights.rows,
                      !.errors = IF insights.raises
                                 THEN Append(@, "Error processing ad") ELSE @]
    /\ ad_index' = ad_index + 1
    /\ UNCHANGED <<etl_module, failing_stages, pixel_id, ad_insights, etl_pc, warnings, loaded,
                   status, varsExceptE>>

\* After the loop extract_ads_async sets COMPLETED and returns its lists
ReturnExtracted ==
    /\ etl_pc = "insights"
    /\ ad_index > Len(ad_insights)
    /\ status_info' = [status_info EXCEPT !.status = "COMPLETED"]
    /\ etl_pc' = "extracted"
    /\ UNCHANGED <<etl_module, failing_stages, pixel_id, ad_insights, ad_index, ads_data,
                   warnings, loaded, status, varsExceptE>>

\* Does run_etl look at the status extract_ads_async returned?  src/main_etl
\* raises when it is ERROR; facebook_api_to_json's main_etl binds it to
\* extraction_status and never reads it.
reads_extraction_status(module) == module = "src"

\* run_etl from the return of extract_ads_async to its own return: an ERROR
\* that is read raises into the handler; with no ads_data nothing is
\* transformed or loaded; otherwise the rows are transformed and loaded, and
\* an exception there reaches the handler, which sets 'error'
FinishEtl ==
    /\ etl_pc = "extracted"
    /\ IF reads_extraction_status(etl_module) /\ status_info.status = "ERROR"
       THEN /\ status' = [status |-> "error", message |-> "ETL process failed"]
            /\ UNCHANGED loaded
       ELSE IF ads_data = <<>>
       THEN /\ status' = [status EXCEPT !.message =
                             IF etl_module = "src" THEN "Successfully processed"
                             ELSE "No conversion data found"]
            /\ UNCHANGED loaded
       ELSE IF "load" \in failing_stages
       THEN /\ status' = [status |-> "error", message |->
                             IF etl_module = "src" THEN "ETL process failed"
                             ELSE "Data extraction failed"]
            /\ UNCHANGED loaded
       ELSE /\ status' = [status EXCEPT !.message = "Successfully processed"]
            /\ loaded' = ads_data
    /\ etl_pc' = "returned"
    /\ UNCHANGED <<etl_module, failing_stages, pixel_id, ad_insights, ad_index, status_info,
                   ads_data, warnings, varsExceptE>>

NextE ==
    \/ InitializeComponents \/ PixelStage \/ ConversionStage \/ BeginExtraction
    \/ ExtractInsights \/ ReturnExtracted \/ FinishEtl

SpecE == InitE /\ [][NextE]_vars

----------------------------------------------------------------------------
(* What the specification says of a row, stated without the scan *)

\* int(float(x)) of a numeric string of t tenths
Truncated(t) == IF t >= 0 THEN t \div 10 ELSE -((-t) \div 10)

\* positions of the entries of the custom-conversion type
CustomIdx(entries) == {i \in 1..Len(entries) : entries[i].action_type = CUSTOM}

\* ... whose '1d_click' fails numeric parsing
MalformedIdx(entries) ==
    {i \in CustomIdx(entries) : entries[i].d1_click.k \in {"bad", "null"}}

\* ... whose '1d_click' yields a number (a missing key reads as 0)
CountIdx(entries) == CustomIdx(entries) \ MalformedIdx(entries)

LastOf(S) == CHOOSE i \in S : \A j \in S : j <= i

\* the number the last counting entry carries
CandidateOf(entries) ==
    LET x == entries[LastOf(CountIdx(entries))].d1_click
    IN  IF x.k = "missing" THEN 0 ELSE Truncated(x.t)

RowActions == ListOrEmpty(insight_data.actions)
RowValues == ListOrEmpty(insight_data.action_values)
HasBoth == CountIdx(RowActions) # {} /\ CountIdx(RowValues) # {}
RowCount == CandidateOf(RowActions)
RowValue == CandidateOf(RowValues)
RowSmaller == Min(RowCount, RowValue)
RowLarger == Max(RowCount, RowValue)

\* entries[i] taken out of the list
RemoveAt(entries, i) ==
    [j \in 1..(Len(entries) - 1) |-> IF j < i THEN entries[j] ELSE entries[j + 1]]

\* the row with one of its lists replaced
WithActions(row, entries) ==
    [actions |-> PyList(entries), action_values |-> row.action_values]
WithValues(row, entries) ==
    [actions |-> row.actions, action_values |-> PyList(entries)]

----------------------------------------------------------------------------
(* Claims on Policy A, checked under SpecA *)

\* C1: when the last custom-conversion count and value of a row are both
\* non-zero and |larger/smaller - 35| < 1, the result is the smaller of the
\* two; count 70 with value 2 gives 2.
C1_RatioGivesSmaller ==
    (pcA = "done" /\ HasBoth /\ RowCount # 0 /\ RowValue # 0
        /\ (IF RowSmaller > 0
            THEN 34 * RowSmaller < RowLarger /\ RowLarger < 36 * RowSmaller
            ELSE 36 * RowSmaller < RowLarger /\ RowLarger < 34 * RowSmaller))
    => resultA = PyInt(RowSmaller)

C1_Witness ==
    /\ pcA = "done"
    /\ HasBoth /\ RowCount = 70 /\ RowValue = 2
    /\ resultA = PyInt(2)

\* C2: when the two non-zero candidates have a ratio larger/smaller outside
\* [34, 36], the result is absent.
C2_RatioOutsideAbsent ==
    (pcA = "done" /\ HasBoth /\ RowCount # 0 /\ RowValue # 0
        /\ (IF RowSmaller > 0
            THEN RowLarger < 34 * RowSmaller \/ RowLarger > 36 * RowSmaller
            ELSE RowLarger > 34 * RowSmaller \/ RowLarger < 36 * RowSmaller))
    => resultA = None

C2_Witness ==
    /\ pcA = "done"
    /\ HasBoth /\ RowCount = 68 /\ RowValue = 70
    /\ resultA = None

\* C3: when the count and the value are both zero, the result is the integer
\* 0, not absent.
C3_BothZeroGivesZero ==
    (pcA = "done" /\ HasBoth /\ RowCount = 0 /\ RowValue = 0)
    => resultA = PyInt(0)

C3_Witness ==
    /\ pcA = "done"
    /\ HasBoth /\ RowCount = 0 /\ RowValue = 0
    /\ RowActions[LastOf(CountIdx(RowActions))].d1_click = Num(0)
    /\ RowValues[LastOf(CountIdx(RowValues))].d1_click = Num(0)
    /\ resultA = PyInt(0)

\* C4: when exactly one of count and value is zero, the result is absent.
C4_OneZeroAbsent ==
    (pcA = "done" /\ HasBoth /\ ((RowCount = 0) # (RowValue = 0)))
    => resultA = None

C4_Witness ==
    /\ pcA = "done"
    /\ HasBoth /\ RowCount = 0 /\ RowValue = 70
    /\ resultA = None

\* C5: a row that lacks actions or action_values, or has no custom-conversion
\* entry in one of them, has an absent result.
C5_MissingSideAbsent ==
    (pcA = "done" /\ (CustomIdx(RowActions) = {} \/ CustomIdx(RowValues) = {}))
    => resultA = None

C5_Witness ==
    /\ pcA = "done"
    /\ ~insight_data.actions.has
    /\ CountIdx(RowValues) # {} /\ RowValue = 0
    /\ resultA = None

\* the row as the specification reads a list: only the last counting entry
KeepLast(entries) ==
    IF CountIdx(entries) = {} THEN <<>> ELSE <<entries[LastOf(CountIdx(entries))]>>

\* the list without its entries of other action types
OnlyCustom(entries) == SelectSeq(entries, LAMBDA e : e.action_type = CUSTOM)

\* C6: the count candidate is the value of the last entry of actions of the
\* custom-conversion type, the value candidate likewise from action_values
\* (the result is that of the row reduced to those two entries), and the
\* entries of other action types never influence the result (the result is
\* that of the row without them).
C6_LastCustomOnly ==
    pcA = "done" =>
        /\ resultA = get_correct_conversion_count(
                        [actions |-> PyList(KeepLast(RowActions)),
                         action_values |-> PyList(KeepLast(RowValues))])
        /\ resultA = get_correct_conversion_count(
                        [actions |-> PyList(OnlyCustom(RowActions)),
                         action_values |-> PyList(OnlyCustom(RowValues))])

C6_Witness ==
    /\ pcA = "done"
    /\ Len(RowActions) = 2 /\ CountIdx(RowActions) = {1, 2}
    /\ RowActions[1].d1_click = Num(20) /\ RowActions[2].d1_click = Num(700)
    /\ Len(RowValues) = 2 /\ CountIdx(RowValues) = {2}
    /\ RowValues[1].action_type = PURCHASE /\ RowValues[1].d1_click = Num(700)
    /\ RowValue = 2
    /\ resultA = PyInt(2)

----------------------------------------------------------------------------
(* What the specification says of Policy B's argument *)

DataItems == ListOrEmpty(actions_data)

\* positions of the dict entries of the custom-conversion type
CustomIdxB ==
    {i \in 1..Len(DataItems) :
        DataItems[i].py_type = "dict" /\ DataItems[i].action_type = CUSTOM}

\* ... that carry '28d_click' with a value that fails numeric parsing
MalformedIdxB == {i \in CustomIdxB : DataItems[i].d28_click.k \in {"bad", "null"}}

\* ... that carry '28d_click' with a number
CountIdxB == {i \in CustomIdxB : DataItems[i].d28_click.k = "num"}

MaxOf(S) == CHOOSE n \in S : \A m \in S : m <= n

----------------------------------------------------------------------------
(* Claims on Policy B, checked under SpecB *)

\* C8: Policy B never raises on a malformed numeric string: an entry of the
\* custom-conversion type whose 28d_click fails numeric parsing is skipped and
\* the remaining entries determine the result.
C8_MalformedSkippedB ==
    pcB = "done" =>
        /\ resultB.kind # "raise"
        /\ \A i \in MalformedIdxB :
              resultB = process_custom_conversions_from_actions(
                            PyList(RemoveAt(DataItems, i)))

\* C9: when at least one entry has the custom-conversion type, the result is
\* the maximum 28d_click value over the matching entries that carry the key,
\* and 0 when no matching entry carries it.
C9_MaxOfCarried ==
    (pcB = "done" /\ actions_data.has /\ CustomIdxB # {})
    => resultB = IF CountIdxB = {} THEN PyInt(0)
                 ELSE PyInt(MaxOf({Truncated(DataItems[i].d28_click.t) : i \in CountIdxB}))

\* C10: when the list holds no entry of the custom-conversion type, the result
\* is absent, distinguishable from a computed count of 0.
C10_NoMatchAbsent ==
    (pcB = "done" /\ actions_data.has /\ CustomIdxB = {})
    => resultB = None

----------------------------------------------------------------------------
(* Claims on both policies, checked under SpecAB *)

\* C11: whenever a policy returns a count, Policy A or Policy B, the count is
\* a non-negative integer, also for rows whose numeric strings are negative.
C11_CountNonNegative ==
    /\ (pcA = "done" /\ resultA.kind = "int") => resultA.v >= 0
    /\ (pcB = "done" /\ resultB.kind = "int") => resultB.v >= 0

C11_Witness ==
    /\ pcB = "done"
    /\ actions_data.has
    /\ CustomIdxB # {} /\ CountIdxB = CustomIdxB
    /\ \A i \in CountIdxB : DataItems[i].d28_click.t < 0
    /\ resultB = PyInt(0)

----------------------------------------------------------------------------
(* Claims on process_insights_data, checked under SpecP *)

\* C12: process_insights_data passes every input row through, in order; a row
\* whose reconciled count is absent leaves with neither actions nor
\* action_values (never a defaulted 0), and a row whose reconciled count is n
\* leaves with actions equal to exactly one custom-conversion entry carrying n
\* and with action_values removed.
C12_RowsPassThrough ==
    pcP = "done" =>
        /\ Len(processed_data) = Len(insights_data)
        /\ \A i \in 1..Len(insights_data) :
              LET in == insights_data[i]
                  out == processed_data[i]
                  count == get_correct_conversion_count(in)
              IN  /\ out.ad_id = in.ad_id
                  /\ ~out.action_values.has
                  /\ count = None => ~out.actions.has
                  /\ count # None =>
                        /\ out.actions.has
                        /\ Len(out.actions.items) = 1
                        /\ out.actions.items[1].action_type = CUSTOM
                        /\ out.actions.items[1].d1_click = Num(10 * count.v)

C12_Witness ==
    /\ pcP = "done"
    /\ Len(insights_data) = 2
    /\ get_correct_conversion_count(insights_data[1]) = None
    /\ insights_data[1].actions.has /\ insights_data[1].action_values.has
    /\ get_correct_conversion_count(insights_data[2]) = PyInt(2)
    /\ ~processed_data[1].actions.has
    /\ processed_data[2].actions.items[1].d1_click = Num(20)

----------------------------------------------------------------------------
(* Claims on fetch_offsite_conversions of main.py, checked under SpecM *)

\* C13: a fetched row that has no ad_id is rejected: it is not part of the
\* returned data, and the run is not aborted by it.
C13_NoAdIdRejected ==
    /\ pcM = "raised" => excM # "KeyError"
    /\ pcM = "returned" => \A i \in 1..Len(all_data) : all_data[i].ad_id # NoAdId

\* C16: an error raised by the insights fetch of one day is recovered locally:
\* it never ends the run, which goes on to the following days and returns the
\* rows of the earlier ones.
C16_FetchErrorRecovered ==
    pcM = "raised" => excM # "FacebookRequestError"

----------------------------------------------------------------------------
(* Claims on the windowed runs, checked under SpecW *)

\* the least whole number that is at least a / b, for b >= 1
CeilDiv(a, b) == (a + b - 1) \div b

\* the range is valid and the step is at least one day
ValidRun == start_dt < end_dt /\ increment_days >= 1

\* C14: for a valid range and a step of at least one day, the windows that
\* FacebookAPI.fetch_offsite_conversions fetches are half-open windows
\* [current, min(current + step, end)), the first starting at start, each one
\* starting where the one before ended (so in strictly increasing order and
\* without overlap), and when the run returns they are
\* ceil((end - start) / step) in number and the last one ends at end.
C14_WindowsTileRange ==
    (fn = FB_API /\ ValidRun /\ pcW \in {"loop", "returned"}) =>
        /\ \A i \in 1..Len(windows) :
              /\ windows[i][1] < windows[i][2]
              /\ windows[i][2] = Min(windows[i][1] + increment_days, end_dt)
        /\ windows # <<>> => windows[1][1] = start_dt
        /\ \A i \in 1..(Len(windows) - 1) :
              /\ windows[i + 1][1] = windows[i][2]
              /\ windows[i][1] < windows[i + 1][1]
        /\ pcW = "returned" =>
              /\ Len(windows) = CeilDiv(end_dt - start_dt, increment_days)
              /\ windows[Len(windows)][2] = end_dt

\* three days fetched one day at a time: three windows
C14_Witness ==
    /\ fn = FB_API
    /\ pcW = "returned"
    /\ start_dt = 0 /\ end_dt = 3 /\ increment_days = 1
    /\ windows = << <<0, 1>>, <<1, 2>>, <<2, 3>> >>

\* the rows of the windows whose fetch succeeded, in window order
RECURSIVE RowsOfSuccessful(_)
RowsOfSuccessful(rs) ==
    IF rs = <<>> THEN <<>>
    ELSE (IF Head(rs).ok THEN Head(rs).rows ELSE <<>>) \o RowsOfSuccessful(Tail(rs))

\* the windows whose fetch failed
FailedWindows == {i \in 1..Len(responses) : ~responses[i].ok}

\* C15: in FacebookAPI.fetch_offsite_conversions a window whose fetch fails
\* adds no row and does not end the run: the rows gathered are at all times
\* the rows of the successful windows in window order, no exception leaves the
\* function, and a run over a valid range returns only after the window that
\* ends at end has been fetched.
C15_FailedWindowSkipped ==
    fn = FB_API =>
        /\ pcW # "raised"
        /\ all_rows = RowsOfSuccessful(responses)
        /\ (ValidRun /\ pcW = "returned") =>
              /\ Len(responses) = CeilDiv(end_dt - start_dt, increment_days)
              /\ windows[Len(windows)][2] = end_dt

\* the second of three windows fails; the rows of the first and the third
\* are returned
C15_Witness ==
    /\ fn = FB_API
    /\ pcW = "returned"
    /\ Len(responses) = 3
    /\ FailedWindows = {2}
    /\ responses[1].rows # <<>>
    /\ responses[3].rows # <<>>
    /\ all_rows = responses[1].rows \o responses[3].rows

\* C17: a run of FacebookAPI.fetch_offsite_conversions that passed over
\* windows says so: when it returns, the error log holds one record for every
\* window whose fetch failed, naming that window's start, and nothing else;
\* so the log of a run with failures differs from the log of a run without.
C17_DegradationLogged ==
    (fn = FB_API /\ pcW = "returned") =>
        /\ Len(error_log) = Cardinality(FailedWindows)
        /\ \A i \in FailedWindows : \E k \in 1..Len(error_log) : error_log[k] = windows[i][1]
        /\ \A k \in 1..Len(error_log) : \E i \in FailedWindows : error_log[k] = windows[i][1]

\* every window fails: the result is empty and the log counts the windows
C17_Witness ==
    /\ fn = FB_API
    /\ pcW = "returned"
    /\ all_rows = <<>>
    /\ Cardinality(FailedWindows) = 2
    /\ Len(responses) = 2
    /\ Len(error_log) = 2

\* C18: a range whose start is not before its end fails with a configuration
\* error before any fetch, in fetch_insights and in
\* FacebookAPI.fetch_offsite_conversions alike: the run neither enters its
\* loop nor returns.
C18_InvalidRangeRejected ==
    start_dt >= end_dt => pcW \in {"idle", "start", "raised"}

\* C19: a step below one day (over a valid range) fails with a configuration
\* error before any fetch: no window is fetched and the loop is not entered.
C19_BadStepRejected ==
    (start_dt < end_dt /\ increment_days < 1) =>
        /\ windows = <<>>
        /\ pcW \in {"idle", "start", "raised"}

----------------------------------------------------------------------------
(* Claims on the roll-up by ad, checked under SpecR *)

\* the custom count of a stored row where one can be derived, else 0
DerivedCount(row) ==
    LET r == process_custom_conversions_from_actions(safe_json_loads(row.actions))
    IN  IF r.kind = "int" THEN r.v ELSE 0

\* is row i a row of ad a dated within the picked range, both ends included
InRollup(i, a) ==
    /\ performance_data[i].ad_id = a
    /\ performance_data[i].date >= date_range[1]
    /\ performance_data[i].date <= date_range[2]

\* C20: once the dashboard has handled a series and a picked range
\* [start, end], every ad that has rows dated in the range (both ends
\* included) has a roll-up whose impressions, clicks, spend and custom count
\* are the sums over exactly those rows, a row without a derivable count
\* adding 0 to the count; and no other ad has a roll-up.
C20_RollupSumsRowsInRange ==
    (pcR \in {"warned", "rolled_up", "failed"} /\ Len(date_range) = 2) =>
        \A a \in AdIds :
            LET n == Len(performance_data)
                Has == \E i \in 1..n : InRollup(i, a)
                Impressions == SumSeq([i \in 1..n |->
                    IF InRollup(i, a) THEN performance_data[i].impressions ELSE 0])
                Clicks == SumSeq([i \in 1..n |->
                    IF InRollup(i, a) THEN performance_data[i].clicks ELSE 0])
                Spend == SumSeq([i \in 1..n |->
                    IF InRollup(i, a) THEN performance_data[i].spend ELSE 0])
                Count == SumSeq([i \in 1..n |->
                    IF InRollup(i, a) THEN DerivedCount(performance_data[i]) ELSE 0])
            IN  /\ Has => \E m \in ad_metrics :
                            /\ m.ad_id = a
                            /\ m.impressions = Impressions
                            /\ m.clicks = Clicks
                            /\ m.spend = Spend
                            /\ has_actions_col => m.custom_conv_count = PyInt(Count)
                /\ ~Has => \A m \in ad_metrics : m.ad_id # a

\* C21: the rates derived from the per-ad sums never fail on a zero
\* denominator and are 0 there: no TypeError ends the roll-up, ctr and cpm
\* are 0 for an ad whose impressions sum to 0, and cpc is 0 for an ad whose
\* clicks sum to 0.
C21_ZeroDenominatorGivesZero ==
    /\ pcR # "rates_failed"
    /\ \A m \in ad_metrics :
          /\ m.impressions = 0 => (m.ctr = Rounded(0) /\ m.cpm = Rounded(0))
          /\ m.clicks = 0 => m.cpc = Rounded(0)

\* C22: the list FacebookAPI.fetch_offsite_conversions gathers never holds
\* two rows with the same ad_id and the same date.
C22_NoDuplicateAdDay ==
    (fn = FB_API /\ ValidRun) =>
        \A i, j \in 1..Len(all_rows) :
            (i # j /\ all_rows[i].ad_id = all_rows[j].ad_id) =>
                all_rows[i].date_start # all_rows[j].date_start

----------------------------------------------------------------------------
(* Claims on the loader, checked under SpecL *)

----------------------------------------------------------------------------
(* Claims on repeated runs and on get_date_range, checked under SpecT *)

\* C23, as stated: two successive runs of
\* FacebookAPI.fetch_offsite_conversions with the same arguments, against a
\* row source that answers every window the same way, return equal results.
C23_RunsReturnEqual ==
    Len(runs) = 2 =>
        /\ runs[1].exc = runs[2].exc
        /\ runs[1].data = runs[2].data

\* C23, amended: a run leaves the checkpoint as it found it, and two
\* successive runs with the same arguments fetch the same windows and return
\* equal results whenever end_date is given or both runs take place on the
\* same day (without end_date the range ends at the day of the run).
C23_RunsEqualOnSameDates ==
    /\ last_run_file = first_last_run
    /\ (Len(runs) = 2 /\ (arg_end_date.given \/ runs[1].today = runs[2].today)) =>
          /\ runs[1].exc = runs[2].exc
          /\ runs[1].start = runs[2].start
          /\ runs[1].end = runs[2].end
          /\ runs[1].data = runs[2].data

\* two runs a day apart whose start comes from the checkpoint
C23_Witness ==
    /\ Len(runs) = 2
    /\ runs[1].today # runs[2].today
    /\ arg_end_date.given
    /\ ~arg_start_date.given
    /\ last_run_file.kind = "date"
    /\ runs[1].data # <<>>
    /\ runs[2].data = runs[1].data

\* C24: in every run, the start get_date_range returns is start_date when
\* that is given, whatever the checkpoint holds; without start_date it is the
\* day after the checkpoint date when there is one, and end - days_back when
\* there is no checkpoint; and the end is end_date, or the day of the run
\* when end_date is not given, so it does not depend on the checkpoint.
C24_CheckpointOnlyDefaultsStart ==
    \A i \in 1..Len(runs) :
        LET r == runs[i]
        IN  /\ arg_start_date.given =>
                  (r.exc = "-" /\ r.start = arg_start_date.day)
            /\ (~arg_start_date.given /\ last_run_file.kind = "date") =>
                  (r.exc = "-" /\ r.start = last_run_file.day + 1)
            /\ (~arg_start_date.given /\ last_run_file.kind = "absent") =>
                  (r.exc = "-" /\ r.start = r.end - arg_days_back)
            /\ r.exc = "-" =>
                  r.end = IF arg_end_date.given THEN arg_end_date.day ELSE r.today

\* a run without start_date that found a checkpoint date
C24_Witness ==
    /\ Len(runs) >= 1
    /\ ~arg_start_date.given
    /\ last_run_file = LastRun(0)
    /\ runs[1].start = 1
    /\ runs[1].end = 2
    /\ arg_days_back = 2

----------------------------------------------------------------------------
(* Claims on the client's retries, checked under SpecC *)

\* C25: a decorated method whose API call fails with FacebookRequestError or
\* RequestException is attempted again, up to 5 attempts in all: a failure
\* leaves the method only after the fifth attempt, and when an attempt before
\* that succeeds the method returns that attempt's result.
C25_RetriedUpToMaxTries ==
    /\ pcC = "raised" => attempts = MaxTries
    /\ (pcC \in {"returned", "raised"} /\ api_failures < MaxTries) =>
          (pcC = "returned" /\ outcomeC = "data" /\ attempts = api_failures + 1)


\* C26: run_etl of facebook_api_to_json returns 'error' whenever
\* extract_ads_async ended with status ERROR, 'success' only when it did
\* not, and failures of the pixel or custom-conversion stage alone leave
\* 'success'.
C26_ErrorWhenExtractionFailed ==
    (etl_pc = "returned" /\ etl_module = "facebook_api_to_json") =>
        /\ status.status \in {"success", "error"}
        /\ status_info.status = "ERROR" => status.status = "error"
        /\ failing_stages \subseteq {"pixel", "conversions"}
               => status.status = "success"

\* C29: whenever extract_ads_async has returned, processed_ads of its
\* status_info is at most total_ads.
C29_ProcessedAtMostTotal ==
    etl_pc \in {"extracted", "returned"} =>
        status_info.processed_ads <= status_info.total_ads


----------------------------------------------------------------------------
(* Further claims on Policy A, checked under SpecA *)

\* C27: a pair of non-zero candidates is accepted only when
\* 34 * smaller < larger < 36 * smaller, both strictly; when larger is
\* exactly 34 times or exactly 36 times smaller the result is absent.
C27_StrictRatioBounds ==
    (pcA = "done" /\ HasBoth /\ RowCount # 0 /\ RowValue # 0) =>
        /\ resultA # None =>
               (34 * RowSmaller < RowLarger /\ RowLarger < 36 * RowSmaller)
        /\ (RowLarger = 34 * RowSmaller \/ RowLarger = 36 * RowSmaller) =>
               resultA = None

C27_Witness ==
    /\ pcA = "done"
    /\ HasBoth /\ RowCount = 2 /\ RowValue = 72
    /\ resultA = None

\* C28: a custom-conversion entry without a '1d_click' key is not passed
\* over but sets the candidate to 0: when it is the last matching entry of
\* actions and the value candidate is non-zero, the result is absent, even
\* when an earlier matching entry carried a count in 35:1 relation with the
\* value.
C28_MissingKeyOverwritesWithZero ==
    (/\ pcA = "done"
     /\ CustomIdx(RowActions) # {}
     /\ RowActions[LastOf(CustomIdx(RowActions))].d1_click = Missing
     /\ CountIdx(RowValues) # {}
     /\ RowValue # 0)
    => resultA = None

C28_Witness ==
    /\ pcA = "done"
    /\ Len(RowActions) = 2
    /\ RowActions[1] = [action_type |-> CUSTOM, d1_click |-> Num(700)]
    /\ RowActions[2] = [action_type |-> CUSTOM, d1_click |-> Missing]
    /\ CountIdx(RowValues) # {}
    /\ RowValue = 2
    /\ resultA = None

====
